---- MODULE Spec2Model ----
(***************************************************************************)
(* A model of examples/segnet/segnet.cpp: the frame loop of main with its  *)
(* output buffers, and the CUDA visualization routines (cudaSegOverlay /   *)
(* gpuSegOverlay, cudaTensor32ToRGB8 / TensorToRGB, cudaBlendRGBA32ToRGB8 /*)
(* BlendRGBA32ToRGB8) with their float32 arithmetic.                       *)
(***************************************************************************)
EXTENDS Integers, Sequences, FiniteSets, TLC

(***************************************************************************)
(* Bounds of the model.                                                    *)
(***************************************************************************)
MaxFrames == 2
MaxWidth == 2
MaxHeight == 2
MaxPtr == 4
MaxApiDim == 1
MaxDispatchDim == 2
MaxTileDim == 2
MaxPointW == 22
MaxPointH == 2
MaxLinW == 3
MaxLinH == 7
MaxLinScores == 3
MaxTensorDim == 2

NULL == 0

VARIABLES
    pc,                 \* position of main in the processing loop
    frames,             \* frames captured so far
    signal_recieved,
    networkType,        \* "SEGNET" or "BACKGROUND_MATTING_V2"
    visualizationFlags, \* subset of {"OVERLAY", "MASK"}
    output,             \* TRUE iff videoOutput::Create returned an object
    frameSize,          \* <<input->GetWidth(), input->GetHeight()>>
    imgMaskOutput, imgBlendOutput, maskoutputSize, blendoutputSize,
    imgMask, imgOverlay, imgComposite, imgOutput,
    maskSize, overlaySize, compositeSize, outputSize,
    heap,               \* the mapped buffers that are allocated
    gpu,                \* kernels launched and not yet completed, in order
    barrier,            \* cudaDeviceSynchronize was issued after the last launch
    rendered,           \* what the last output->Render was handed
    call,               \* the CUDA routine that is called, with its arguments
    status,             \* "pending", or the cudaError_t the call returned
    kernels,            \* the kernels the call launched
    ran,                \* the threads of the launch that have written
    outbuf,             \* per element of the output buffer, the values written to it
    fault,              \* a thread made an invalid access
    singleStep          \* the launch is observed for one thread only

mainVars == <<pc, frames, signal_recieved, networkType, visualizationFlags,
              output, frameSize>>
mattingVars == <<imgMaskOutput, imgBlendOutput, maskoutputSize, blendoutputSize>>
segnetVars == <<imgMask, imgOverlay, imgComposite, imgOutput,
                maskSize, overlaySize, compositeSize, outputSize>>
gpuVars == <<gpu, barrier, rendered>>
loopVars == <<mainVars, mattingVars, segnetVars, heap, gpuVars>>
cudaVars == <<call, status, kernels, ran, outbuf, fault, singleStep>>
vars == <<loopVars, cudaVars>>

MATTING == "BACKGROUND_MATTING_V2"
SEGNET == "SEGNET"
VISUALIZE_OVERLAY == "OVERLAY"
VISUALIZE_MASK == "MASK"

NoRender == [buf |-> NULL, barrier |-> TRUE, busy |-> FALSE]


Ptrs == 1..MaxPtr
FrameSizes == (1..MaxWidth) \X (1..MaxHeight)

\* cudaAllocMapped(&ptr, size): the buffer it maps, or NULL when it fails
\* (p is the allocator's answer: NULL, or an address that is not in use)
cudaAllocMapped(hp, size, p) ==
    IF p # NULL /\ p \notin hp /\ size[1] * size[2] > 0 THEN p ELSE NULL

(***************************************************************************)
(* allocBackGroundMattingV2Buffers(width, height): the values of the       *)
(* matting globals and of the heap when it returns, and what it returns.   *)
(* ps[1], ps[2] are the allocator's answers to the two allocations.        *)
(***************************************************************************)
allocBackGroundMattingV2Buffers(width, height, ps) ==
    LET hp0 == heap \ {imgMaskOutput, imgBlendOutput}
        msz == <<width, height>>
        pm == cudaAllocMapped(hp0, msz, ps[1])
        hp1 == hp0 \cup ({pm} \ {NULL})
        bsz == <<width, height>>
        pb == cudaAllocMapped(hp1, bsz, ps[2])
    IN IF pm = NULL
       THEN [ret |-> FALSE, imgMaskOutput |-> NULL, imgBlendOutput |-> NULL,
             maskoutputSize |-> msz, blendoutputSize |-> blendoutputSize,
             heap |-> hp0]
       ELSE IF pb = NULL
       THEN [ret |-> FALSE, imgMaskOutput |-> pm, imgBlendOutput |-> NULL,
             maskoutputSize |-> msz, blendoutputSize |-> bsz, heap |-> hp1]
       ELSE [ret |-> TRUE, imgMaskOutput |-> pm, imgBlendOutput |-> pb,
             maskoutputSize |-> msz, blendoutputSize |-> bsz,
             heap |-> hp1 \cup {pb}]

\* the segnet globals and the heap, as one record
SegnetState ==
    [ret |-> TRUE, imgMask |-> imgMask, imgOverlay |-> imgOverlay,
     imgComposite |-> imgComposite, imgOutput |-> imgOutput,
     maskSize |-> maskSize, overlaySize |-> overlaySize,
     compositeSize |-> compositeSize, outputSize |-> outputSize,
     heap |-> heap]

\* allocBuffers, lines 139-157: the frees and the overlay image
AllocOverlay(s, width, height, flags, p) ==
    LET f == [s EXCEPT !.heap = s.heap \ {s.imgMask, s.imgOverlay, s.imgComposite},
                       !.imgMask = NULL, !.imgOverlay = NULL,
                       !.imgComposite = NULL,
                       !.overlaySize = <<width, height>>]
        po == cudaAllocMapped(f.heap, f.overlaySize, p)
    IN IF VISUALIZE_OVERLAY \notin flags THEN f
       ELSE IF po = NULL THEN [f EXCEPT !.ret = FALSE]
       ELSE [f EXCEPT !.imgOverlay = po, !.heap = f.heap \cup {po},
                      !.imgOutput = po, !.outputSize = f.overlaySize]

\* allocBuffers, lines 159-172: the mask image
AllocMask(s, width, height, flags, p) ==
    LET msz == IF VISUALIZE_OVERLAY \in flags
               THEN <<width \div 2, height \div 2>> ELSE s.overlaySize
        pm == cudaAllocMapped(s.heap, msz, p)
    IN IF ~s.ret \/ VISUALIZE_MASK \notin flags THEN s
       ELSE IF pm = NULL THEN [s EXCEPT !.ret = FALSE, !.maskSize = msz]
       ELSE [s EXCEPT !.maskSize = msz, !.imgMask = pm,
                      !.heap = s.heap \cup {pm},
                      !.imgOutput = pm, !.outputSize = msz]

\* allocBuffers, lines 174-187: the composite image
AllocComposite(s, flags, p) ==
    LET csz == <<s.overlaySize[1] + s.maskSize[1], s.overlaySize[2]>>
        pcm == cudaAllocMapped(s.heap, csz, p)
    IN IF ~s.ret \/ ~(VISUALIZE_OVERLAY \in flags /\ VISUALIZE_MASK \in flags)
       THEN s
       ELSE IF pcm = NULL THEN [s EXCEPT !.ret = FALSE, !.compositeSize = csz]
       ELSE [s EXCEPT !.compositeSize = csz, !.imgComposite = pcm,
                      !.heap = s.heap \cup {pcm},
                      !.imgOutput = pcm, !.outputSize = csz]

\* whether allocBuffers finds the buffers already allocated for this size
AlreadyAllocated(s, width, height) ==
    s.imgOverlay # NULL /\ width = s.overlaySize[1] /\ height = s.overlaySize[2]

(***************************************************************************)
(* allocBuffers(width, height, flags): the values of the segnet globals    *)
(* and of the heap when it returns, and what it returns.                   *)
(***************************************************************************)
allocBuffers(width, height, flags, ps) ==
    IF AlreadyAllocated(SegnetState, width, height) THEN SegnetState
    ELSE AllocComposite(
             AllocMask(AllocOverlay(SegnetState, width, height, flags, ps[1]),
                       width, height, flags, ps[2]),
             flags, ps[3])

SetSegnet(s) ==
    /\ imgMask' = s.imgMask
    /\ imgOverlay' = s.imgOverlay
    /\ imgComposite' = s.imgComposite
    /\ imgOutput' = s.imgOutput
    /\ maskSize' = s.maskSize
    /\ overlaySize' = s.overlaySize
    /\ compositeSize' = s.compositeSize
    /\ outputSize' = s.outputSize
    /\ heap' = s.heap

SetMatting(s) ==
    /\ imgMaskOutput' = s.imgMaskOutput
    /\ imgBlendOutput' = s.imgBlendOutput
    /\ maskoutputSize' = s.maskoutputSize
    /\ blendoutputSize' = s.blendoutputSize
    /\ heap' = s.heap

\* a kernel launch on the device: it runs later, writing dst
Launch(q, kernel, dst) == Append(q, [kernel |-> kernel, dst |-> dst])

\* whether a launched kernel that writes buf has not completed
Busy(q, buf) == \E i \in 1..Len(q) : q[i].dst = buf

(***************************************************************************)
(* main: the processing loop, one action per statement that can leave it.  *)
(***************************************************************************)
\* line 289: while( !signal_recieved )
LoopHead ==
    /\ pc = "loop"
    /\ pc' = IF signal_recieved THEN "done" ELSE "capture"
    /\ UNCHANGED <<cudaVars, frames, signal_recieved, networkType, visualizationFlags,
                   output, frameSize, mattingVars, segnetVars, heap, gpuVars>>

\* lines 292-304: input->Capture
Capture ==
    /\ pc = "capture"
    /\ \/ /\ frames < MaxFrames
          /\ \E sz \in FrameSizes : frameSize' = sz
          /\ frames' = frames + 1
          /\ pc' = "alloc"
       \/ /\ pc' \in {"done", "loop"}   \* end of stream, or a timeout
          /\ UNCHANGED <<frames, frameSize>>
    /\ UNCHANGED <<cudaVars, signal_recieved, networkType, visualizationFlags, output,
                   mattingVars, segnetVars, heap, gpuVars>>

\* lines 325-333: the matting buffers of this frame
AllocMatting ==
    /\ pc = "alloc"
    /\ networkType = MATTING
    /\ \E ps \in [1..2 -> {NULL} \cup Ptrs] :
          LET s == allocBackGroundMattingV2Buffers(frameSize[1], frameSize[2], ps)
          IN /\ SetMatting(s)
             /\ pc' = IF s.ret THEN "process" ELSE "loop"
    /\ UNCHANGED <<cudaVars, frames, signal_recieved, networkType, visualizationFlags,
                   output, frameSize, segnetVars, gpuVars>>

\* lines 334-342: the segnet buffers of this frame
AllocSegnet ==
    /\ pc = "alloc"
    /\ networkType = SEGNET
    /\ \E ps \in [1..3 -> {NULL} \cup Ptrs] :
          LET s == allocBuffers(frameSize[1], frameSize[2], visualizationFlags, ps)
          IN /\ SetSegnet(s)
             /\ pc' = IF s.ret THEN "process" ELSE "loop"
    /\ UNCHANGED <<cudaVars, frames, signal_recieved, networkType, visualizationFlags,
                   output, frameSize, mattingVars, gpuVars>>

\* lines 348-365: net->Process
Process ==
    /\ pc = "process"
    /\ \E ok \in BOOLEAN :
          pc' = IF ~ok THEN "loop"
                ELSE IF networkType = MATTING THEN "binarymask" ELSE "overlay"
    /\ UNCHANGED <<cudaVars, frames, signal_recieved, networkType, visualizationFlags,
                   output, frameSize, mattingVars, segnetVars, heap, gpuVars>>

\* lines 373-377: net->BinaryMask
BinaryMask ==
    /\ pc = "binarymask"
    /\ \E ok \in BOOLEAN :
          IF ok THEN /\ gpu' = Launch(gpu, "BinaryMask", imgMaskOutput)
                     /\ barrier' = FALSE
                     /\ pc' = "blending"
          ELSE /\ pc' = "loop"
               /\ UNCHANGED <<gpu, barrier>>
    /\ UNCHANGED <<cudaVars, frames, signal_recieved, networkType, visualizationFlags,
                   output, frameSize, mattingVars, segnetVars, heap, rendered>>

\* lines 379-383: net->BlendingImage
BlendingImage ==
    /\ pc = "blending"
    /\ \E ok \in BOOLEAN :
          IF ok THEN /\ gpu' = Launch(gpu, "BlendingImage", imgBlendOutput)
                     /\ barrier' = FALSE
                     /\ pc' = "render"
          ELSE /\ pc' = "loop"
               /\ UNCHANGED <<gpu, barrier>>
    /\ UNCHANGED <<cudaVars, frames, signal_recieved, networkType, visualizationFlags,
                   output, frameSize, mattingVars, segnetVars, heap, rendered>>

\* lines 387-395: net->Overlay
Overlay ==
    /\ pc = "overlay"
    /\ IF VISUALIZE_OVERLAY \in visualizationFlags
       THEN \E ok \in BOOLEAN :
               IF ok THEN /\ gpu' = Launch(gpu, "Overlay", imgOverlay)
                          /\ barrier' = FALSE
                          /\ pc' = "mask"
               ELSE /\ pc' = "loop"
                    /\ UNCHANGED <<gpu, barrier>>
       ELSE /\ pc' = "mask"
            /\ UNCHANGED <<gpu, barrier>>
    /\ UNCHANGED <<cudaVars, frames, signal_recieved, networkType, visualizationFlags,
                   output, frameSize, mattingVars, segnetVars, heap, rendered>>

\* lines 397-405: net->Mask
Mask ==
    /\ pc = "mask"
    /\ IF VISUALIZE_MASK \in visualizationFlags
       THEN \E ok \in BOOLEAN :
               IF ok THEN /\ gpu' = Launch(gpu, "Mask", imgMask)
                          /\ barrier' = FALSE
                          /\ pc' = "composite"
               ELSE /\ pc' = "loop"
                    /\ UNCHANGED <<gpu, barrier>>
       ELSE /\ pc' = "composite"
            /\ UNCHANGED <<gpu, barrier>>
    /\ UNCHANGED <<cudaVars, frames, signal_recieved, networkType, visualizationFlags,
                   output, frameSize, mattingVars, segnetVars, heap, rendered>>

\* lines 407-412: the two cudaOverlay calls that fill the composite
Composite ==
    /\ pc = "composite"
    /\ IF VISUALIZE_OVERLAY \in visualizationFlags
          /\ VISUALIZE_MASK \in visualizationFlags
       THEN /\ gpu' = Launch(Launch(gpu, "cudaOverlay", imgComposite),
                             "cudaOverlay", imgComposite)
            /\ barrier' = FALSE
       ELSE UNCHANGED <<gpu, barrier>>
    /\ pc' = "render"
    /\ UNCHANGED <<cudaVars, frames, signal_recieved, networkType, visualizationFlags,
                   output, frameSize, mattingVars, segnetVars, heap, rendered>>

\* the buffer main hands to output->Render (lines 418-430)
RenderBuffer == IF networkType = MATTING THEN imgBlendOutput ELSE imgOutput

\* lines 415-440: output->Render, SetStatus, IsStreaming
Render ==
    /\ pc = "render"
    /\ IF output
       THEN /\ rendered' = [buf |-> RenderBuffer, barrier |-> barrier,
                            busy |-> Busy(gpu, RenderBuffer)]
            /\ \E streaming \in BOOLEAN :
                  signal_recieved' = (signal_recieved \/ ~streaming)
       ELSE UNCHANGED <<rendered, signal_recieved>>
    /\ pc' = "sync"
    /\ UNCHANGED <<cudaVars, frames, networkType, visualizationFlags, output, frameSize,
                   mattingVars, segnetVars, heap, gpu, barrier>>

\* lines 442-446: cudaDeviceSynchronize waits for every launched kernel
Synchronize ==
    /\ pc = "sync"
    /\ gpu' = <<>>
    /\ barrier' = TRUE
    /\ pc' = "loop"
    /\ UNCHANGED <<cudaVars, frames, signal_recieved, networkType, visualizationFlags,
                   output, frameSize, mattingVars, segnetVars, heap, rendered>>

\* the device completes the oldest launched kernel
GpuComplete ==
    /\ gpu # <<>>
    /\ gpu' = Tail(gpu)
    /\ UNCHANGED <<cudaVars, mainVars, mattingVars, segnetVars, heap, barrier, rendered>>

\* lines 46-53: SIGINT arrives
sig_handler ==
    /\ pc # "done"
    /\ ~signal_recieved
    /\ signal_recieved' = TRUE
    /\ UNCHANGED <<cudaVars, pc, frames, networkType, visualizationFlags, output,
                   frameSize, mattingVars, segnetVars, heap, gpuVars>>

MainInit ==
    /\ pc = "loop"
    /\ frames = 0
    /\ signal_recieved = FALSE
    /\ networkType \in {SEGNET, MATTING}
    /\ visualizationFlags \in SUBSET {VISUALIZE_OVERLAY, VISUALIZE_MASK}
    /\ (networkType = MATTING => visualizationFlags = {})
    /\ output \in BOOLEAN
    /\ frameSize = <<0, 0>>
    /\ imgMaskOutput = NULL /\ imgBlendOutput = NULL
    /\ maskoutputSize = <<0, 0>> /\ blendoutputSize = <<0, 0>>
    /\ imgMask = NULL /\ imgOverlay = NULL
    /\ imgComposite = NULL /\ imgOutput = NULL
    /\ maskSize = <<0, 0>> /\ overlaySize = <<0, 0>>
    /\ compositeSize = <<0, 0>> /\ outputSize = <<0, 0>>
    /\ heap = {}
    /\ gpu = <<>>
    /\ barrier = TRUE
    /\ rendered = NoRender

MainNext ==
    \/ LoopHead \/ Capture \/ AllocMatting \/ AllocSegnet \/ Process
    \/ BinaryMask \/ BlendingImage \/ Overlay \/ Mask \/ Composite
    \/ Render \/ Synchronize \/ GpuComplete \/ sig_handler

(***************************************************************************)
(* IEEE-754 binary32 arithmetic, as the kernels' `float` expressions       *)
(* compute it (round to nearest, ties to even; each operator of the source *)
(* is one rounded operation).  A float is <<m, e>> with value m * 2^e,     *)
(* where m = 0 (and e = 0) or 2^23 <= |m| < 2^24.  Every intermediate      *)
(* integer stays below 2^31.                                               *)
(***************************************************************************)
RECURSIVE Pow2(_)
Pow2(n) == IF n = 0 THEN 1 ELSE 2 * Pow2(n - 1)

RECURSIVE BitLen(_)
BitLen(n) == IF n = 0 THEN 0 ELSE 1 + BitLen(n \div 2)

Abs(n) == IF n < 0 THEN 0 - n ELSE n
Sgn(n) == IF n < 0 THEN 0 - 1 ELSE 1

FZero == <<0, 0>>

\* round to nearest, ties to even: whether quotient q with remainder r of a
\* division by 2 * half (and sticky: non-zero bits below) is rounded up
RoundUp(q, r, half, sticky) ==
    r > half \/ (r = half /\ (sticky \/ q % 2 = 1))

\* a rounded significand that reached 2^24 is renormalized
Renorm(sign, m, e) ==
    IF m = 16777216 THEN <<sign * 8388608, e + 1>> ELSE <<sign * m, e>>

\* S has more than 24 bits: drop the low bits (S = q * p + r) and round
RoundDrop(sign, S, e, sticky, p) ==
    Renorm(sign,
           (S \div p) + (IF RoundUp(S \div p, S % p, p \div 2, sticky) THEN 1 ELSE 0),
           e)

\* S has n bits
RoundLen(sign, S, e, sticky, n) ==
    IF n <= 24 THEN <<sign * S * Pow2(24 - n), e - (24 - n)>>
    ELSE RoundDrop(sign, S, e + (n - 24), sticky, Pow2(n - 24))

\* the float nearest to sign * S * 2^e (S >= 0; sticky: non-zero bits below S)
RoundSig(sign, S, e, sticky) ==
    IF S = 0 THEN FZero ELSE RoundLen(sign, S, e, sticky, BitLen(S))

\* float(n) for an int n
FromInt(n) == RoundSig(Sgn(n), Abs(n), 0, FALSE)

FNeg(a) == <<0 - a[1], a[2]>>

\* the 48-bit product H * 2^24 + L of two significands, rounded
FMulHL(sign, H, L, e) ==
    RoundSig(sign, H * 64 + (L \div 262144), e + 18, L % 262144 # 0)

\* the partial products of the 12-bit halves, summed
FMulParts(sign, hh, mid, ll, e) ==
    FMulHL(sign,
           hh + (mid \div 4096) + (((mid % 4096) * 4096 + ll) \div 16777216),
           ((mid % 4096) * 4096 + ll) % 16777216, e)

FMulMag(sign, ma, mb, e) ==
    FMulParts(sign, (ma \div 4096) * (mb \div 4096),
              (ma \div 4096) * (mb % 4096) + (ma % 4096) * (mb \div 4096),
              (ma % 4096) * (mb % 4096), e)

\* a * b
FMul(a, b) ==
    IF a[1] = 0 \/ b[1] = 0 THEN FZero
    ELSE FMulMag(Sgn(a[1]) * Sgn(b[1]), Abs(a[1]), Abs(b[1]), a[2] + b[2])

\* hi + lo where hi has the larger exponent, by d <= 5: the exact sum
FAddNear(hi, lo, d) == hi[1] * Pow2(d) + lo[1]

\* hi + lo where hi has the larger exponent, by more than 5: lo is shifted
\* right by p = 2^(d-5), the bits lost kept as one sticky bit
FAddFar(hi, lo, p) ==
    Sgn(hi[1]) *
      (IF Sgn(hi[1]) = Sgn(lo[1])
       THEN 2 * (Abs(hi[1]) * 32 + (Abs(lo[1]) \div p))
              + (IF Abs(lo[1]) % p # 0 THEN 1 ELSE 0)
       ELSE 2 * (Abs(hi[1]) * 32 - (Abs(lo[1]) \div p))
              - (IF Abs(lo[1]) % p # 0 THEN 1 ELSE 0))

FAddRound(S, e) == RoundSig(Sgn(S), Abs(S), e, FALSE)

FAddOrdered(hi, lo, d) ==
    IF d > 30 THEN hi
    ELSE FAddRound(IF d <= 5 THEN FAddNear(hi, lo, d)
                   ELSE FAddFar(hi, lo, Pow2(d - 5)),
                   IF d <= 5 THEN lo[2] ELSE hi[2] - 6)

\* a + b
FAdd(a, b) ==
    IF a[1] = 0 THEN b
    ELSE IF b[1] = 0 THEN a
    ELSE FAddOrdered(IF a[2] >= b[2] THEN a ELSE b,
                     IF a[2] >= b[2] THEN b ELSE a,
                     Abs(a[2] - b[2]))

\* a - b
FSub(a, b) == FAdd(a, FNeg(b))

\* the quotient bits of r / mb, `bits` more of them: <<quotient, remainder>>
RECURSIVE LongDiv(_, _, _, _)
LongDiv(r, mb, bits, acc) ==
    IF bits = 0 THEN <<acc, r>>
    ELSE IF 2 * r >= mb THEN LongDiv(2 * r - mb, mb, bits - 1, 2 * acc + 1)
    ELSE LongDiv(2 * r, mb, bits - 1, 2 * acc)

FDivRound(sign, qr, e) == RoundSig(sign, qr[1], e, qr[2] # 0)

\* a / b (b is not zero)
FDiv(a, b) ==
    IF a[1] = 0 THEN FZero
    ELSE FDivRound(Sgn(a[1]) * Sgn(b[1]),
                   LongDiv(Abs(a[1]) % Abs(b[1]), Abs(b[1]), 25,
                           Abs(a[1]) \div Abs(b[1])),
                   a[2] - b[2] - 25)

\* a < b
FLt(a, b) == FSub(a, b)[1] < 0

\* int(a): the conversion of a float to an integer type truncates
FToInt(a) ==
    IF a[2] >= 0 THEN a[1] * Pow2(a[2])
    ELSE IF 0 - a[2] > 30 THEN 0
    ELSE Sgn(a[1]) * (Abs(a[1]) \div Pow2(0 - a[2]))



(***************************************************************************)
(* The data the kernels read.  A device pointer is NULL or names one of a  *)
(* few buffers whose contents are fixed for the duration of a launch.      *)
(***************************************************************************)
Classes == {0, 1}
ScoreGrids == {1, 2}
ColorTables == {1, 2}
Formats == {"rgb8", "rgba8", "rgb32f", "rgba32f", "bgr8", "gray8"}
PixelTypes == {"uchar3", "uchar4", "float3", "float4"}

\* the class id of cell (ix, iy): grid 1 is uniform, grid 2 a checkerboard
\* ([[0,1],[1,0]] when it is 2x2)
ScoreAt(grid, ix, iy) == IF grid = 1 THEN 0 ELSE (ix + iy) % 2

\* the float4 color of a class: table 1 is {0:(255,0,0,255), 1:(0,255,0,255)},
\* table 2 has the default overlay alpha, 150
ColorAt(table, class) ==
    LET a == IF table = 1 THEN 255 ELSE 150
    IN IF class = 0
       THEN <<FromInt(255), FromInt(0), FromInt(0), FromInt(a)>>
       ELSE <<FromInt(0), FromInt(255), FromInt(0), FromInt(a)>>

\* the channels of the input image at (xi, yi), as 8-bit values
InputAt(xi, yi) == <<(11 * xi + 3 * yi) % 256, (7 * yi + 40) % 256, 128, 255>>

IsFloatType(T) == T \in {"float3", "float4"}
Channels(T) == IF T \in {"uchar3", "float3"} THEN 3 ELSE 4

\* the conversion of a float to unsigned char truncates
FToU8(a) == FToInt(a)

\* make_vec<T>(x, y, z, w): a pixel of type T from four floats
make_vec(T, x, y, z, w) ==
    IF T = "uchar3" THEN <<FToU8(x), FToU8(y), FToU8(z)>>
    ELSE IF T = "uchar4" THEN <<FToU8(x), FToU8(y), FToU8(z), FToU8(w)>>
    ELSE IF T = "float3" THEN <<x, y, z>>
    ELSE <<x, y, z, w>>

\* the float value of channel c of an input pixel of type T
InputChannel(px_in, c) == FromInt(px_in[c])

\* line 517-518: px = float(x) / float(out_width)
NormCoord(x, out_width) == FDiv(FromInt(x), FromInt(out_width))

\* lines 526-530 and 547-548: int(px * float(dim))
PointCoord(x, out_width, dim) == FToInt(FMul(NormCoord(x, out_width), FromInt(dim)))

FHalf == FDiv(FromInt(1), FromInt(2))
FOne == FromInt(1)

\* a faulty variant of HighNeighbor: the high neighbor without the edge clamp
HighNeighborUnclamped(x1, dim) == x1 + 1

\* line 574: x2 = x1 >= scores_dim.x - 1 ? x1 : x1 + 1
HighNeighbor(x1, dim) == IF x1 >= dim - 1 THEN x1 ELSE x1 + 1

\* lines 565-566: bx = (px * float(scores_dim.x)) - 0.5f
BiasedCoord(x, out_width, dim) ==
    FSub(FMul(NormCoord(x, out_width), FromInt(dim)), FHalf)

\* lines 568-569: cx = bx < 0.0f ? 0.0f : bx
ClampLow(bx) == IF FLt(bx, FZero) THEN FZero ELSE bx

\* lines 591-595: x1f = 1.0f - x1d and x2f = 1.0f - x1f
LinearWeights(x1, x2, x1f) ==
    [lo |-> x1, hi |-> x2, lof |-> x1f, hif |-> FSub(FOne, x1f)]

\* lines 571-575 and 588-589: x1 = int(cx), x2, and x1d = cx - float(x1)
LinearNeighbors(cx, x1, dim) ==
    LinearWeights(x1, HighNeighbor(x1, dim), FSub(FOne, FSub(cx, FromInt(x1))))

LinearFrom(cx, dim) == LinearNeighbors(cx, FToInt(cx), dim)

\* lines 565-575 and 588-595, for one axis: the low and high neighbor and
\* their weights
LinearCoord(x, out_width, dim) ==
    LinearFrom(ClampLow(BiasedCoord(x, out_width, dim)), dim)

\* line 520: the index LOOKUP_CLASS_MAP(ix, iy) reads
ClassMapIndex(a, ix, iy) == iy * a.scores_dim[1] + ix

ScoresInBounds(a, ix, iy) ==
    /\ a.scores # NULL
    /\ ClassMapIndex(a, ix, iy) >= 0
    /\ ClassMapIndex(a, ix, iy) < a.scores_dim[1] * a.scores_dim[2]

\* the class id the read returns; a read through a NULL pointer or outside
\* the grid returns anything (g)
LOOKUP_CLASS_MAP(a, ix, iy, g) ==
    IF ScoresInBounds(a, ix, iy)
    THEN ScoreAt(a.scores, ClassMapIndex(a, ix, iy) % a.scores_dim[1],
                 ClassMapIndex(a, ix, iy) \div a.scores_dim[1])
    ELSE g

\* class_colors[classIdx]; anything when class_colors is NULL
ClassColor(a, classIdx, g) ==
    IF a.class_colors # NULL THEN ColorAt(a.class_colors, classIdx)
    ELSE ColorAt(1 + g, g)

\* lines 547-550 and 617-620: the input pixel that is blended
InputIndex(a, x, y) ==
    PointCoord(y, a.out_height, a.in_height) * a.in_width
        + PointCoord(x, a.out_width, a.in_width)

IndexInBounds(a, idx) ==
    /\ a.input # NULL
    /\ idx >= 0
    /\ idx < a.in_width * a.in_height

InputInBounds(a, x, y) == IndexInBounds(a, InputIndex(a, x, y))

\* input[idx]; anything when input is NULL or idx outside the image
InputRead(a, idx, g) ==
    IF IndexInBounds(a, idx) THEN InputAt(idx % a.in_width, idx \div a.in_width)
    ELSE InputAt(g, g)

InputPixel(a, x, y, g) == InputRead(a, InputIndex(a, x, y), g)

\* lines 555-559 and 625-629: alph * classColor + inva * px_in
BlendWith(T, classColor, px_in, alph, inva) ==
    make_vec(T,
         FAdd(FMul(alph, classColor[1]), FMul(inva, InputChannel(px_in, 1))),
         FAdd(FMul(alph, classColor[2]), FMul(inva, InputChannel(px_in, 2))),
         FAdd(FMul(alph, classColor[3]), FMul(inva, InputChannel(px_in, 3))),
         FromInt(255))

\* line 553, 623: inva = 1.0f - alph
BlendAlpha(T, classColor, px_in, alph) ==
    BlendWith(T, classColor, px_in, alph, FSub(FOne, alph))

\* lines 552-559 and 622-629: alpha blend of the class color with the input
AlphaBlend(T, classColor, px_in) ==
    BlendAlpha(T, classColor, px_in, FDiv(classColor[4], FromInt(255)))

\* lines 538-560 and 608-630: the pixel written for a class color
OutputPixel(a, T, mask_only, classColor, x, y, g) ==
    IF mask_only
    THEN make_vec(T, classColor[1], classColor[2], classColor[3], FromInt(255))
    ELSE AlphaBlend(T, classColor, InputPixel(a, x, y, g))

\* lines 523-536: the class color of point filtering
PointColor(a, x, y, g) ==
    ClassColor(a, LOOKUP_CLASS_MAP(a, PointCoord(x, a.out_width, a.scores_dim[1]),
                                      PointCoord(y, a.out_height, a.scores_dim[2]), g), g)

\* lines 602-606: one channel of the bilinear blend of four colors
Bilinear(cc, c, w) ==
    FAdd(FAdd(FAdd(FMul(cc[1][c], w[1]), FMul(cc[2][c], w[2])),
              FMul(cc[3][c], w[3])),
         FMul(cc[4][c], w[4]))

\* lines 597-600: the four weights, in the order x1y1f, x2y1f, x2y2f, x1y2f
BilinearWeights(lx, ly) ==
    <<FMul(lx.lof, ly.lof), FMul(lx.hif, ly.lof),
      FMul(lx.hif, ly.hif), FMul(lx.lof, ly.hif)>>

\* lines 577-580: the four cells read, in the order (x1,y1), (x2,y1),
\* (x2,y2), (x1,y2)
CellsOf(lx, ly) ==
    <<<<lx.lo, ly.lo>>, <<lx.hi, ly.lo>>, <<lx.hi, ly.hi>>, <<lx.lo, ly.hi>>>>

LinearCells(a, x, y) ==
    CellsOf(LinearCoord(x, a.out_width, a.scores_dim[1]),
            LinearCoord(y, a.out_height, a.scores_dim[2]))

\* lines 582-585: cc[], the colors of the four cells
CellColors(a, cells, g) ==
    [i \in 1..4 |-> ClassColor(a, LOOKUP_CLASS_MAP(a, cells[i][1], cells[i][2], g), g)]

\* lines 602-606: classColor, the weighted sum of the four colors
BilinearColor(cc, w) ==
    <<Bilinear(cc, 1, w), Bilinear(cc, 2, w), Bilinear(cc, 3, w), Bilinear(cc, 4, w)>>

LinearColorFrom(a, lx, ly, g) ==
    BilinearColor(CellColors(a, CellsOf(lx, ly), g), BilinearWeights(lx, ly))

\* lines 564-606: the class color of linear filtering
LinearColor(a, x, y, g) ==
    LinearColorFrom(a, LinearCoord(x, a.out_width, a.scores_dim[1]),
                    LinearCoord(y, a.out_height, a.scores_dim[2]), g)

\* a faulty variant of OutOfRange: the bounds test off by one
OutOfRangeOffByOne(x, y, width, height) == x > width \/ y > height

\* line 514: the threads that return without doing anything
OutOfRange(x, y, width, height) == x >= width \/ y >= height

\* lines 542, 555, 612, 625: the element of output a thread writes
OutputIndex(a, x, y) == y * a.out_width + x

\* the cells of a sequence of four, as a set
CellSet(cells) == {cells[i] : i \in 1..4}

\* the score-grid cells thread (x, y) reads
ScoreReads(a, filter_linear, x, y) ==
    IF filter_linear
    THEN CellSet(LinearCells(a, x, y))
    ELSE {<<PointCoord(x, a.out_width, a.scores_dim[1]),
            PointCoord(y, a.out_height, a.scores_dim[2])>>}

\* whether thread (x, y) reads only inside the buffers it is given
ValidReads(a, filter_linear, mask_only, x, y) ==
    /\ a.class_colors # NULL
    /\ \A c \in ScoreReads(a, filter_linear, x, y) : ScoresInBounds(a, c[1], c[2])
    /\ mask_only \/ InputInBounds(a, x, y)

(***************************************************************************)
(* gpuSegOverlay<T, filter_linear, mask_only>: the pixel thread (x, y)     *)
(* writes to output[OutputIndex(a, x, y)].                                 *)
(***************************************************************************)
gpuSegOverlay(a, T, filter_linear, mask_only, x, y, g) ==
    OutputPixel(a, T, mask_only,
                IF filter_linear THEN LinearColor(a, x, y, g)
                ELSE PointColor(a, x, y, g),
                x, y, g)

(***************************************************************************)
(* The planar float tensors of the matting path.                           *)
(***************************************************************************)
Tensors == {1, 2}
AlphaPlanes == {1, 2, 3}

\* the float literals a tensor holds: 1.0, 0.5, -0.2, 0.0, 1.2, 0.2
TensorPalette ==
    <<FromInt(1), FHalf, FDiv(FromInt(0 - 1), FromInt(5)), FZero,
      FDiv(FromInt(6), FromInt(5)), FDiv(FromInt(1), FromInt(5))>>

\* element i of a source tensor (tensor 1 of size 1x1 holds 1.0, 0.5, -0.2)
TensorAt(tensor, i) == TensorPalette[((i + 3 * (tensor - 1)) % 6) + 1]

\* element i of an alpha plane: plane 1 is all 0.0, plane 2 all 1.0,
\* plane 3 cycles through 0.5, 0.2, 1.0, 0.0
AlphaAt(plane, i) ==
    IF plane = 1 THEN FZero
    ELSE IF plane = 2 THEN FOne
    ELSE <<FHalf, FDiv(FromInt(1), FromInt(5)), FOne, FZero>>[(i % 4) + 1]

\* lines 724-728: clip float to [min,max]
clip(x, min, max) == IF FLt(max, x) THEN max ELSE IF FLt(x, min) THEN min ELSE x

\* lines 730-736: clip vector to [min,max], as uchar3
clip3(px, min, max) ==
    <<FToU8(clip(px[1], FromInt(min), FromInt(max))),
      FToU8(clip(px[2], FromInt(min), FromInt(max))),
      FToU8(clip(px[3], FromInt(min), FromInt(max)))>>

\* a faulty variant of TensorIndex: the tensor read as interleaved channels
TensorIndexInterleaved(c, x, y, width, height) == (y * width + x) * 3 + c

\* lines 744-754: the element of the source tensor read for channel c
TensorIndex(c, x, y, width, height) == (width * height) * c + y * width + x

(***************************************************************************)
(* TensorToRGB: the pixel thread (x, y) writes to dstImage[y * width + x]. *)
(***************************************************************************)
TensorToRGB(a, x, y) ==
    clip3(<<FMul(TensorAt(a.src, TensorIndex(0, x, y, a.width, a.height)), FromInt(255)),
            FMul(TensorAt(a.src, TensorIndex(1, x, y, a.width, a.height)), FromInt(255)),
            FMul(TensorAt(a.src, TensorIndex(2, x, y, a.width, a.height)), FromInt(255))>>,
          0, 255)

\* lines 799-801: the fixed background color
Background == <<120, 255, 155>>

\* a faulty variant of BlendValue: the weights of source and background swapped
BlendValueSwapped(src, alph, bg) ==
    FAdd(FMul(FMul(src, FromInt(255)), FSub(FOne, alph)), FMul(alph, FromInt(bg)))

\* lines 799-801: (src * 255.0f * alph) + ((1.0f - alph) * BG)
BlendValue(src, alph, bg) ==
    FAdd(FMul(FMul(src, FromInt(255)), alph), FMul(FSub(FOne, alph), FromInt(bg)))

\* lines 799-801: one channel of the composite, before clipping
BlendChannel(a, c, x, y) ==
    BlendValue(TensorAt(a.src, TensorIndex(c, x, y, a.width, a.height)),
               AlphaAt(a.alph, y * a.width + x), Background[c + 1])

(***************************************************************************)
(* BlendRGBA32ToRGB8: the pixel thread (x, y) writes to                    *)
(* dstImage[y * width + x].                                                *)
(***************************************************************************)
BlendRGBA32ToRGB8(a, x, y) ==
    clip3(<<BlendChannel(a, 0, x, y), BlendChannel(a, 1, x, y),
            BlendChannel(a, 2, x, y)>>, 0, 255)

(***************************************************************************)
(* The host side: validation and launch.                                   *)
(***************************************************************************)
BlockDim == 8

iDivUp(a, b) == IF a % b # 0 THEN a \div b + 1 ELSE a \div b

\* lines 660-661, 770-771, 816-817: gridDim
GridDim(width, height) == <<iDivUp(width, BlockDim), iDivUp(height, BlockDim)>>

\* the threads of a launch, by their (x, y)
Threads(gridDim) ==
    (0..(gridDim[1] * BlockDim - 1)) \X (0..(gridDim[2] * BlockDim - 1))

\* line 647: the formats the error message of lines 649-654 lists
imageFormatIsRGB(format) == format \in {"rgb8", "rgba8", "rgb32f", "rgba32f"}

\* line 663: LAUNCH_OVERLAY_KERNEL(type, filter, mask)
LAUNCH_OVERLAY_KERNEL(type, filter, mask, gridDim) ==
    <<[name |-> "gpuSegOverlay", T |-> type, filter_linear |-> filter,
       mask_only |-> mask, gridDim |-> gridDim]>>

\* lines 665-677: LAUNCH_OVERLAY(filter, mask): the launches it issues
LAUNCH_OVERLAY(format, filter, mask, gridDim) ==
    IF format = "rgb8" THEN LAUNCH_OVERLAY_KERNEL("uchar3", filter, mask, gridDim)
    ELSE IF format = "rgba8" THEN LAUNCH_OVERLAY_KERNEL("uchar4", filter, mask, gridDim)
    ELSE IF format = "rgb32f" THEN LAUNCH_OVERLAY_KERNEL("float3", filter, mask, gridDim)
    ELSE IF format = "rgba32f" THEN LAUNCH_OVERLAY_KERNEL("float4", filter, mask, gridDim)
    ELSE <<>>

\* a faulty variant of OverlayDispatch: the two flags passed in the wrong order
OverlayDispatchSwapped(a, gridDim) ==
    IF a.filter_linear
    THEN IF a.mask_only THEN LAUNCH_OVERLAY(a.format, TRUE, TRUE, gridDim)
         ELSE LAUNCH_OVERLAY(a.format, FALSE, TRUE, gridDim)
    ELSE IF a.mask_only THEN LAUNCH_OVERLAY(a.format, TRUE, FALSE, gridDim)
         ELSE LAUNCH_OVERLAY(a.format, FALSE, FALSE, gridDim)

\* lines 679-700: the specialization the runtime flags select
OverlayDispatch(a, gridDim) ==
    IF a.filter_linear
    THEN IF a.mask_only THEN LAUNCH_OVERLAY(a.format, TRUE, TRUE, gridDim)
         ELSE LAUNCH_OVERLAY(a.format, TRUE, FALSE, gridDim)
    ELSE IF a.mask_only THEN LAUNCH_OVERLAY(a.format, FALSE, TRUE, gridDim)
         ELSE LAUNCH_OVERLAY(a.format, FALSE, FALSE, gridDim)

\* line 702, 775, 821: cudaGetLastError after the launches
cudaGetLastError(launchOk) == IF launchOk THEN "cudaSuccess" ELSE "cudaErrorLaunchFailure"

(***************************************************************************)
(* cudaSegOverlay: the status it returns and the kernels it launches.      *)
(***************************************************************************)
cudaSegOverlay(a, launchOk) ==
    IF a.output = NULL
    THEN [status |-> "cudaErrorInvalidDevicePointer", kernels |-> <<>>]
    ELSE IF a.out_width = 0 \/ a.out_height = 0
    THEN [status |-> "cudaErrorInvalidValue", kernels |-> <<>>]
    ELSE IF ~imageFormatIsRGB(a.format)
    THEN [status |-> "cudaErrorInvalidValue", kernels |-> <<>>]
    ELSE [status |-> cudaGetLastError(launchOk),
          kernels |-> OverlayDispatch(a, GridDim(a.out_width, a.out_height))]

(***************************************************************************)
(* launchTensorToRGB, through cudaTensor32ToRGB8.                          *)
(***************************************************************************)
cudaTensor32ToRGB8(a, launchOk) ==
    IF a.src = NULL \/ a.dst = NULL
    THEN [status |-> "cudaErrorInvalidDevicePointer", kernels |-> <<>>]
    ELSE IF a.width = 0 \/ a.height = 0
    THEN [status |-> "cudaErrorInvalidValue", kernels |-> <<>>]
    ELSE [status |-> cudaGetLastError(launchOk),
          kernels |-> <<[name |-> "TensorToRGB", T |-> "uchar3",
                         filter_linear |-> FALSE, mask_only |-> FALSE,
                         gridDim |-> GridDim(a.width, a.height)]>>]

(***************************************************************************)
(* launchBlendRGBA32ToRGB8, through cudaBlendRGBA32ToRGB8.                 *)
(***************************************************************************)
cudaBlendRGBA32ToRGB8(a, launchOk) ==
    IF a.src = NULL \/ a.alph = NULL \/ a.dst = NULL
    THEN [status |-> "cudaErrorInvalidDevicePointer", kernels |-> <<>>]
    ELSE IF a.width = 0 \/ a.height = 0
    THEN [status |-> "cudaErrorInvalidValue", kernels |-> <<>>]
    ELSE [status |-> cudaGetLastError(launchOk),
          kernels |-> <<[name |-> "BlendRGBA32ToRGB8", T |-> "uchar3",
                         filter_linear |-> FALSE, mask_only |-> FALSE,
                         gridDim |-> GridDim(a.width, a.height)]>>]


(***************************************************************************)
(* The calls and the threads as actions.                                   *)
(***************************************************************************)
\* the elements of the output buffer of a call, none written
EmptyBuffer(c) ==
    IF c.op = "cudaSegOverlay"
    THEN [i \in 0..(IF c.output = NULL THEN 0 ELSE c.out_width * c.out_height) - 1 |-> <<>>]
    ELSE [i \in 0..(IF c.dst = NULL THEN 0 ELSE c.width * c.height) - 1 |-> <<>>]

\* what the routine that is called returns and launches
Routine(c, launchOk) ==
    IF c.op = "cudaSegOverlay" THEN cudaSegOverlay(c, launchOk)
    ELSE IF c.op = "cudaTensor32ToRGB8" THEN cudaTensor32ToRGB8(c, launchOk)
    ELSE cudaBlendRGBA32ToRGB8(c, launchOk)

Returned(r) ==
    /\ status' = r.status
    /\ kernels' = r.kernels

\* the host calls the routine: validation, launch, status
Call ==
    /\ status = "pending"
    /\ \E launchOk \in BOOLEAN : Returned(Routine(call, launchOk))
    /\ UNCHANGED <<loopVars, call, ran, outbuf, fault, singleStep>>

\* a thread of the launch may run
Runnable(k, t) ==
    /\ status = "cudaSuccess"
    /\ ~fault
    /\ t \in Threads(k.gridDim) \ ran
    /\ singleStep => ran = {}

\* the thread writes val to element idx of the output buffer
Write(t, idx, val) ==
    /\ ran' = ran \cup {t}
    /\ IF idx \in DOMAIN outbuf
       THEN /\ outbuf' = [outbuf EXCEPT ![idx] = Append(@, val)]
            /\ UNCHANGED fault
       ELSE /\ fault' = TRUE
            /\ UNCHANGED outbuf

\* one thread of gpuSegOverlay, lines 511-633
ThreadSegOverlay ==
    /\ call.op = "cudaSegOverlay"
    /\ \E i \in 1..Len(kernels) : \E t \in Threads(kernels[i].gridDim) :
          LET k == kernels[i]
              x == t[1]
              y == t[2]
          IN /\ Runnable(k, t)
             /\ IF OutOfRange(x, y, call.out_width, call.out_height)
                THEN UNCHANGED <<ran, outbuf, fault>>
                ELSE \E g \in (IF ValidReads(call, k.filter_linear, k.mask_only, x, y)
                               THEN {0} ELSE Classes \cup {0 - 1}) :
                        IF g < 0
                        THEN /\ fault' = TRUE
                             /\ ran' = ran \cup {t}
                             /\ UNCHANGED outbuf
                        ELSE Write(t, OutputIndex(call, x, y),
                                   gpuSegOverlay(call, k.T, k.filter_linear,
                                                 k.mask_only, x, y, g))
    /\ UNCHANGED <<loopVars, call, status, kernels, singleStep>>

\* one thread of TensorToRGB, lines 742-756
ThreadTensorToRGB ==
    /\ call.op = "cudaTensor32ToRGB8"
    /\ \E i \in 1..Len(kernels) : \E t \in Threads(kernels[i].gridDim) :
          /\ Runnable(kernels[i], t)
          /\ IF OutOfRange(t[1], t[2], call.width, call.height)
             THEN UNCHANGED <<ran, outbuf, fault>>
             ELSE Write(t, t[2] * call.width + t[1], TensorToRGB(call, t[1], t[2]))
    /\ UNCHANGED <<loopVars, call, status, kernels, singleStep>>

\* one thread of BlendRGBA32ToRGB8, lines 789-803
ThreadBlendRGBA32ToRGB8 ==
    /\ call.op = "cudaBlendRGBA32ToRGB8"
    /\ \E i \in 1..Len(kernels) : \E t \in Threads(kernels[i].gridDim) :
          /\ Runnable(kernels[i], t)
          /\ IF OutOfRange(t[1], t[2], call.width, call.height)
             THEN UNCHANGED <<ran, outbuf, fault>>
             ELSE Write(t, t[2] * call.width + t[1], BlendRGBA32ToRGB8(call, t[1], t[2]))
    /\ UNCHANGED <<loopVars, call, status, kernels, singleStep>>

\* no CUDA routine of this file is being called
CudaIdle ==
    /\ call = [op |-> "none"]
    /\ status = "none"
    /\ kernels = <<>>
    /\ ran = {}
    /\ outbuf = <<>>
    /\ fault = FALSE
    /\ singleStep = FALSE

\* main is not running
MainIdle ==
    /\ pc = "done"
    /\ frames = 0
    /\ signal_recieved = FALSE
    /\ networkType = SEGNET
    /\ visualizationFlags = {}
    /\ output = FALSE
    /\ frameSize = <<0, 0>>
    /\ imgMaskOutput = NULL /\ imgBlendOutput = NULL
    /\ maskoutputSize = <<0, 0>> /\ blendoutputSize = <<0, 0>>
    /\ imgMask = NULL /\ imgOverlay = NULL
    /\ imgComposite = NULL /\ imgOutput = NULL
    /\ maskSize = <<0, 0>> /\ overlaySize = <<0, 0>>
    /\ compositeSize = <<0, 0>> /\ outputSize = <<0, 0>>
    /\ heap = {}
    /\ gpu = <<>>
    /\ barrier = TRUE
    /\ rendered = NoRender

\* the call c is about to be made
Calling(c, single) ==
    /\ MainIdle
    /\ call = c
    /\ status = "pending"
    /\ kernels = <<>>
    /\ ran = {}
    /\ outbuf = EmptyBuffer(c)
    /\ fault = FALSE
    /\ singleStep = single

SegOverlayCalls(inputs, inDims, outputs, outDims, formats, tables, grids, scoreDims, filters, masks) ==
    {[op |-> "cudaSegOverlay", input |-> i, in_width |-> id[1], in_height |-> id[2],
      output |-> o, out_width |-> od[1], out_height |-> od[2], format |-> f,
      class_colors |-> cc, scores |-> sc, scores_dim |-> sd,
      filter_linear |-> fl, mask_only |-> mo] :
        i \in inputs, id \in inDims, o \in outputs, od \in outDims, f \in formats,
        cc \in tables, sc \in grids, sd \in scoreDims, fl \in filters, mo \in masks}

TensorCalls(srcs, dsts, dims) ==
    {[op |-> "cudaTensor32ToRGB8", src |-> s, dst |-> d,
      width |-> wh[1], height |-> wh[2]] : s \in srcs, d \in dsts, wh \in dims}

BlendCalls(srcs, alphs, dsts, dims) ==
    {[op |-> "cudaBlendRGBA32ToRGB8", src |-> s, alph |-> al, dst |-> d,
      width |-> wh[1], height |-> wh[2]] :
        s \in srcs, al \in alphs, d \in dsts, wh \in dims}

(***************************************************************************)
(* Spec: the processing loop of main.                                      *)
(***************************************************************************)
Init == MainInit /\ CudaIdle
Next == MainNext
Spec == Init /\ [][Next]_vars


(***************************************************************************)
(* SpecApi: the three routines called with any mix of absent buffers and   *)
(* zero dimensions.                                                        *)
(***************************************************************************)
ApiDims == (0..MaxApiDim) \X (0..MaxApiDim)

InitApi ==
    \E c \in SegOverlayCalls({NULL, 1}, {<<d, d>> : d \in 0..MaxApiDim}, {NULL, 1},
                             ApiDims, {"rgb8", "gray8"}, {NULL, 1}, {NULL, 1},
                             ApiDims, BOOLEAN, BOOLEAN)
              \cup TensorCalls({NULL, 1}, {NULL, 1}, ApiDims)
              \cup BlendCalls({NULL, 1}, {NULL, 2}, {NULL, 1}, ApiDims) :
        Calling(c, FALSE)

NextApi == Call \/ ThreadSegOverlay \/ ThreadTensorToRGB \/ ThreadBlendRGBA32ToRGB8
SpecApi == InitApi /\ [][NextApi]_vars

(***************************************************************************)
(* SpecDispatch: cudaSegOverlay with every format tag and flag pair, and   *)
(* one pixel of the kernel it launches.                                    *)
(***************************************************************************)
DispatchDims == (1..MaxDispatchDim) \X (1..MaxDispatchDim)

InitDispatch ==
    \E od \in DispatchDims :
        \E c \in SegOverlayCalls({NULL, 1}, {od}, {1}, {od}, Formats, {2}, {2},
                                 {<<1, 1>>, <<2, 2>>}, BOOLEAN, BOOLEAN) :
            Calling(c, TRUE)

NextSegOverlay == Call \/ ThreadSegOverlay
SpecDispatch == InitDispatch /\ [][NextSegOverlay]_vars

(***************************************************************************)
(* SpecTiles: the threads of one gpuSegOverlay launch, in any order.       *)
(***************************************************************************)
\* the small images, and the two that are one pixel wider or higher than a tile
TileDims ==
    ((1..MaxTileDim) \X (1..MaxTileDim)) \cup {<<BlockDim + 1, 1>>, <<1, BlockDim + 1>>}

InitTiles ==
    \E od \in TileDims :
        \E c \in SegOverlayCalls({1}, {od}, {1}, {od}, {"rgb8"}, {2}, {2},
                                 {<<2, 2>>}, BOOLEAN, BOOLEAN) :
            Calling(c, FALSE)

SpecTiles == InitTiles /\ [][NextSegOverlay]_vars

(***************************************************************************)
(* SpecPoint: one pixel of a point-filtered launch.                        *)
(***************************************************************************)
PointDims == (1..MaxPointW) \X (1..MaxPointH)

InitPoint ==
    \E od \in PointDims :
        \E c \in SegOverlayCalls({1}, {od}, {1}, {od}, {"rgb8"}, {2}, {2},
                                 PointDims, {FALSE}, BOOLEAN) :
            Calling(c, TRUE)

SpecPoint == InitPoint /\ [][NextSegOverlay]_vars

(***************************************************************************)
(* SpecLinear: one pixel of a linear-filtered launch.                      *)
(***************************************************************************)
LinearDims == (1..MaxLinW) \X (1..MaxLinH)
LinearScoreDims == (1..MaxLinScores) \X (1..MaxLinScores)

InitLinear ==
    \E od \in LinearDims :
        \E c \in SegOverlayCalls({1}, {od}, {1}, {od}, {"rgb8"}, {2}, ScoreGrids,
                                 LinearScoreDims, {TRUE}, BOOLEAN) :
            Calling(c, TRUE)

SpecLinear == InitLinear /\ [][NextSegOverlay]_vars

(***************************************************************************)
(* SpecTensor: cudaTensor32ToRGB8 and cudaBlendRGBA32ToRGB8 on valid       *)
(* tensors, their threads in any order.                                    *)
(***************************************************************************)
TensorDims == (1..MaxTensorDim) \X (1..MaxTensorDim)

InitTensor ==
    \E c \in TensorCalls(Tensors, {1}, TensorDims)
              \cup BlendCalls(Tensors, AlphaPlanes, {1}, TensorDims) :
        Calling(c, FALSE)

NextTensor == Call \/ ThreadTensorToRGB \/ ThreadBlendRGBA32ToRGB8
SpecTensor == InitTensor /\ [][NextTensor]_vars

(***************************************************************************)
(* The properties.                                                         *)
(***************************************************************************)
\* the call is to cudaSegOverlay and has returned
SegOverlayReturned == call.op = "cudaSegOverlay" /\ status # "pending"

\* the (x, y) of element i of the output image
PixelOf(i) == <<i % call.out_width, i \div call.out_width>>

\* the pixel thread t has written (each thread writes at most once)
Written(t) == outbuf[t[2] * call.out_width + t[1]]

(* C1: in every iteration of the processing loop that hands a buffer to output->Render, cudaDeviceSynchronize has been issued after the frame's visualization launches and before the Render. *)
C1_BarrierBeforeRender == rendered.barrier

\* a frame was rendered after at least one visualization launch
C1_Witness == rendered.buf # NULL /\ pc = "sync" /\ ~barrier

(* C2: with 8x8 tiles and ceil(width/8) x ceil(height/8) tiles, every pixel inside the image is written by exactly one thread, threads outside the image write nothing, and the value written depends on the inputs only, so every interleaving ends in the same output buffer. *)
C2_ExactlyOneWriter ==
    (call.op = "cudaSegOverlay" /\ status = "cudaSuccess") =>
        /\ ~fault
        /\ Len(kernels) = 1
        /\ kernels[1].gridDim = <<(call.out_width + 7) \div 8, (call.out_height + 7) \div 8>>
        /\ \A t \in ran : t[1] < call.out_width /\ t[2] < call.out_height
        /\ \A i \in DOMAIN outbuf :
              /\ Len(outbuf[i]) = Cardinality({t \in ran : t = PixelOf(i)})
              /\ Len(outbuf[i]) = 1 =>
                    outbuf[i][1] = gpuSegOverlay(call, kernels[1].T, call.filter_linear,
                                                 call.mask_only, PixelOf(i)[1],
                                                 PixelOf(i)[2], 0)
        /\ (\A t \in Threads(kernels[1].gridDim) :
               (t[1] < call.out_width /\ t[2] < call.out_height) => t \in ran)
              => \A i \in DOMAIN outbuf : Len(outbuf[i]) = 1

\* an image two tiles wide, every pixel of it written
C2_Witness ==
    /\ call.op = "cudaSegOverlay"
    /\ call.out_width > BlockDim
    /\ Cardinality(ran) = call.out_width * call.out_height
    /\ \A i \in DOMAIN outbuf : Len(outbuf[i]) = 1

\* a required buffer of the call is absent
RequiredAbsent(c) ==
    IF c.op = "cudaSegOverlay"
    THEN \/ c.output = NULL
         \/ c.class_colors = NULL
         \/ c.scores = NULL
         \/ (~c.mask_only /\ c.input = NULL)
    ELSE IF c.op = "cudaTensor32ToRGB8" THEN c.src = NULL \/ c.dst = NULL
    ELSE c.src = NULL \/ c.alph = NULL \/ c.dst = NULL

\* a width or height the call is given is zero
ZeroDimension(c) ==
    IF c.op = "cudaSegOverlay"
    THEN \/ c.out_width = 0 \/ c.out_height = 0
         \/ c.scores_dim[1] = 0 \/ c.scores_dim[2] = 0
    ELSE c.width = 0 \/ c.height = 0

(* C3: each of cudaSegOverlay, cudaTensor32ToRGB8 and cudaBlendRGBA32ToRGB8 returns the invalid-pointer status when a buffer it requires is absent and the invalid-argument status when a dimension it is given is zero, and launches no kernel in either case; cudaSegOverlay requires the output, the class colors, the score grid and (unless mask_only) the input, and its dimensions include scores_dim. *)
C3_ValidationBeforeLaunch ==
    (call.op # "none" /\ status # "pending") =>
        /\ (RequiredAbsent(call) \/ ZeroDimension(call)) =>
              /\ kernels = <<>>
              /\ status \in {"cudaErrorInvalidDevicePointer", "cudaErrorInvalidValue"}
        /\ (RequiredAbsent(call) /\ ~ZeroDimension(call)) =>
              status = "cudaErrorInvalidDevicePointer"
        /\ (~RequiredAbsent(call) /\ ZeroDimension(call)) =>
              status = "cudaErrorInvalidValue"

\* cudaSegOverlay has launched its kernel without a class-color table
C3_Witness ==
    /\ SegOverlayReturned
    /\ call.class_colors = NULL
    /\ call.output # NULL
    /\ kernels # <<>>

\* the pixel type of a supported format
TypeOfFormat(format) ==
    CASE format = "rgb8" -> "uchar3"
      [] format = "rgba8" -> "uchar4"
      [] format = "rgb32f" -> "float3"
      [] format = "rgba32f" -> "float4"

(* C4: cudaSegOverlay with an output and non-zero output dimensions returns the invalid-argument status for a format outside {rgb8, rgba8, rgb32f, rgba32f}, launching nothing and leaving the output unwritten; for a format in the set it launches exactly one kernel, of the format's pixel type and with the filter_linear and mask_only of the call. *)
C4_FormatDispatch ==
    (SegOverlayReturned /\ call.output # NULL
        /\ call.out_width # 0 /\ call.out_height # 0) =>
        IF call.format \in {"rgb8", "rgba8", "rgb32f", "rgba32f"}
        THEN /\ Len(kernels) = 1
             /\ kernels[1].name = "gpuSegOverlay"
             /\ kernels[1].T = TypeOfFormat(call.format)
             /\ kernels[1].filter_linear = call.filter_linear
             /\ kernels[1].mask_only = call.mask_only
        ELSE /\ status = "cudaErrorInvalidValue"
             /\ kernels = <<>>
             /\ ran = {}
             /\ \A i \in DOMAIN outbuf : outbuf[i] = <<>>

\* a float4 linear overlay launch whose thread has written a pixel
C4_Witness ==
    /\ SegOverlayReturned
    /\ call.format = "rgba32f"
    /\ call.filter_linear /\ ~call.mask_only
    /\ ran # {}

\* the 8-bit RGB of a class in both color tables
ClassRGB(class) == IF class = 0 THEN <<255, 0, 0>> ELSE <<0, 255, 0>>

\* floor(x * dim / out)
NearestCell(x, dim, out) == (x * dim) \div out

(* C5: in point mode with mask_only, the pixel (x, y) is the RGB of the class of score cell (floor(x*scores_dim.x/out_w), floor(y*scores_dim.y/out_h)), exactly. *)
C5_PointMaskExact ==
    (call.op = "cudaSegOverlay" /\ ~call.filter_linear /\ call.mask_only) =>
        \A t \in ran :
            Written(t) =
                <<ClassRGB(ScoreAt(call.scores,
                                   NearestCell(t[1], call.scores_dim[1], call.out_width),
                                   NearestCell(t[2], call.scores_dim[2], call.out_height)))>>

\* a pixel of the right half of a 4-wide mask of a 2x2 grid has been written
C5_Witness ==
    /\ call.op = "cudaSegOverlay" /\ ~call.filter_linear /\ call.mask_only
    /\ call.out_width = 4 /\ call.scores_dim = <<2, 2>>
    /\ <<3, 0>> \in ran
    /\ Written(<<3, 0>>) = <<ClassRGB(1)>>

(* C6: in overlay mode the pixel (x, y) blends the class color with the input pixel at (floor(x*in_w/out_w), floor(y*in_h/out_h)), which is inside the input image: each channel is alpha*color + (1-alpha)*input with alpha = color.w/255. *)
C6_OverlayInputPixel ==
    (call.op = "cudaSegOverlay" /\ ~call.filter_linear /\ ~call.mask_only) =>
        \A t \in ran :
            /\ NearestCell(t[1], call.in_width, call.out_width) < call.in_width
            /\ NearestCell(t[2], call.in_height, call.out_height) < call.in_height
            /\ Written(t) =
                 <<AlphaBlend(kernels[1].T, PointColor(call, t[1], t[2], 0),
                              InputAt(NearestCell(t[1], call.in_width, call.out_width),
                                      NearestCell(t[2], call.in_height, call.out_height)))>>

\* an overlay pixel has been written with the default alpha
C6_Witness ==
    /\ call.op = "cudaSegOverlay" /\ ~call.filter_linear /\ ~call.mask_only
    /\ call.class_colors = 2 /\ call.input # NULL
    /\ call.out_width = 4
    /\ <<3, 1>> \in ran
    /\ Len(Written(<<3, 1>>)) = 1

\* the four cells hold one class
OneClass(cells) ==
    \A i \in 1..4 :
        ScoreAt(call.scores, cells[i][1], cells[i][2])
            = ScoreAt(call.scores, cells[1][1], cells[1][2])

\* the four cells linear mode reads for thread t hold one class
SameClass(t) == OneClass(LinearCells(call, t[1], t[2]))

(* C7: when the four cells linear mode reads for a pixel hold the same class, the linear-mode pixel equals the point-mode pixel, in mask and in overlay mode. *)
C7_LinearEqualsPoint ==
    (call.op = "cudaSegOverlay" /\ call.filter_linear) =>
        \A t \in ran :
            SameClass(t) =>
                Written(t) = <<gpuSegOverlay(call, kernels[1].T, FALSE, call.mask_only,
                                             t[1], t[2], 0)>>

\* a linear-mode pixel of a uniform grid has been written
C7_Witness ==
    /\ call.op = "cudaSegOverlay" /\ call.filter_linear
    /\ call.scores = 1
    /\ call.scores_dim = <<2, 1>>
    /\ \E t \in ran : Len(Written(t)) = 1 /\ SameClass(t)

\* the tensor values times ten: 1.0, 0.5, -0.2, 0.0, 1.2, 0.2
TenTimes(tensor, i) == <<10, 5, 0 - 2, 0, 12, 2>>[((i + 3 * (tensor - 1)) % 6) + 1]

\* v / d for v >= 0, saturated to [0, 255], the fraction dropped
Saturate(v, d) == IF v < 0 THEN 0 ELSE IF v > 255 * d THEN 255 ELSE v \div d

\* the planar offset of channel c of element i
PlaneOffset(c, i) == c * call.width * call.height + i

(* C8: TensorToRGB writes to every pixel the three values at offsets c*width*height + y*width + x, each times 255, saturated to [0,255] and truncated toward zero, so that a 1x1 tensor (1.0, 0.5, -0.2) gives (255, 127, 0). *)
C8_TensorToRGBTruncates ==
    call.op = "cudaTensor32ToRGB8" =>
        /\ ~fault
        /\ \A i \in DOMAIN outbuf :
              /\ Len(outbuf[i]) <= 1
              /\ Len(outbuf[i]) = 1 =>
                    outbuf[i][1] =
                        <<Saturate(255 * TenTimes(call.src, PlaneOffset(0, i)), 10),
                          Saturate(255 * TenTimes(call.src, PlaneOffset(1, i)), 10),
                          Saturate(255 * TenTimes(call.src, PlaneOffset(2, i)), 10)>>
        /\ (call.src = 1 /\ call.width = 1 /\ call.height = 1 /\ ran # {}) =>
              outbuf[0] = <<<<255, 127, 0>>>>

\* every pixel of a 2x2 tensor has been converted
C8_Witness ==
    /\ call.op = "cudaTensor32ToRGB8"
    /\ call.width = 2 /\ call.height = 2
    /\ \A i \in DOMAIN outbuf : Len(outbuf[i]) = 1

(* C8 as the specification words it: the 1x1 tensor (1.0, 0.5, -0.2) gives the pixel (255, 128, 0). *)
C8_ScenarioC ==
    (call.op = "cudaTensor32ToRGB8" /\ call.src = 1
        /\ call.width = 1 /\ call.height = 1 /\ ran # {}) =>
        outbuf[0] = <<<<255, 128, 0>>>>

\* the alpha values times ten
AlphaTenTimes(plane, i) ==
    IF plane = 1 THEN 0
    ELSE IF plane = 2 THEN 10
    ELSE <<5, 2, 10, 0>>[(i % 4) + 1]

\* 100 * (255*src*alpha + (1-alpha)*BG) for channel c of element i
Blend100(c, i) ==
    255 * TenTimes(call.src, PlaneOffset(c, i)) * AlphaTenTimes(call.alph, i)
        + (10 - AlphaTenTimes(call.alph, i)) * 10 * <<120, 255, 155>>[c + 1]

\* the byte b is the quantized, saturated value of v / 100
Quantizes(b, v) ==
    /\ b \in 0..255
    /\ IF v <= 0 THEN b = 0
       ELSE IF v >= 25500 THEN b = 255
       ELSE 100 * b <= v /\ v <= 100 * b + 100

(* C9: BlendRGBA32ToRGB8 writes to every pixel, per channel, clip(255*src*alpha + (1-alpha)*BG, 0, 255) as an integer, with BG = (120, 255, 155) and alpha from the alpha plane at the pixel's offset; alpha = 0 gives the background and alpha = 1 gives the pixel TensorToRGB gives. *)
C9_CompositeMatte ==
    call.op = "cudaBlendRGBA32ToRGB8" =>
        /\ ~fault
        /\ \A i \in DOMAIN outbuf :
              /\ Len(outbuf[i]) <= 1
              /\ Len(outbuf[i]) = 1 =>
                    /\ \A c \in 0..2 : Quantizes(outbuf[i][1][c + 1], Blend100(c, i))
                    /\ AlphaTenTimes(call.alph, i) = 0 => outbuf[i][1] = <<120, 255, 155>>
                    /\ AlphaTenTimes(call.alph, i) = 10 =>
                          outbuf[i][1] =
                              <<Saturate(255 * TenTimes(call.src, PlaneOffset(0, i)), 10),
                                Saturate(255 * TenTimes(call.src, PlaneOffset(1, i)), 10),
                                Saturate(255 * TenTimes(call.src, PlaneOffset(2, i)), 10)>>

\* every pixel of a 2x2 matte with mixed alpha has been composited
C9_Witness ==
    /\ call.op = "cudaBlendRGBA32ToRGB8"
    /\ call.alph = 3
    /\ call.width = 2 /\ call.height = 2
    /\ \A i \in DOMAIN outbuf : Len(outbuf[i]) = 1

\* Min of two integers
Min(a, b) == IF a <= b THEN a ELSE b

\* the low neighbor cells[1] and the high neighbor cells[3] of a pixel are in
\* the grid, the high one the low one's successor clamped to the last
\* column and row
NeighborsInGrid(cells) ==
    /\ 0 <= cells[1][1]
    /\ cells[1][1] <= cells[3][1]
    /\ cells[3][1] <= call.scores_dim[1] - 1
    /\ 0 <= cells[1][2]
    /\ cells[1][2] <= cells[3][2]
    /\ cells[3][2] <= call.scores_dim[2] - 1
    /\ cells[3][1] = Min(cells[1][1] + 1, call.scores_dim[1] - 1)
    /\ cells[3][2] = Min(cells[1][2] + 1, call.scores_dim[2] - 1)
    /\ cells[2] = <<cells[3][1], cells[1][2]>>
    /\ cells[4] = <<cells[1][1], cells[3][2]>>
    /\ \A i \in 1..4 : ScoresInBounds(call, cells[i][1], cells[i][2])

(* C10: in linear mode the neighbors of every pixel satisfy 0 <= x1 <= x2 <= scores_dim.x-1 and 0 <= y1 <= y2 <= scores_dim.y-1 with x2 = min(x1+1, scores_dim.x-1) and y2 = min(y1+1, scores_dim.y-1), so that no read of the score grid is out of bounds. *)
C10_LinearNeighborsInGrid ==
    (call.op = "cudaSegOverlay" /\ call.filter_linear) =>
        /\ ~fault
        /\ \A t \in ran : NeighborsInGrid(LinearCells(call, t[1], t[2]))

\* the low neighbor is the last row, and the high neighbor is clamped to it
ClampedAtEdge(cells) ==
    /\ cells[1][2] = call.scores_dim[2] - 1
    /\ cells[3][2] = call.scores_dim[2] - 1

\* a pixel whose low neighbor is the last row of a grid higher than one
C10_Witness ==
    /\ call.op = "cudaSegOverlay" /\ call.filter_linear
    /\ call.scores_dim[2] > 1
    /\ \E t \in ran : ClampedAtEdge(LinearCells(call, t[1], t[2])) /\ Len(Written(t)) = 1

\* the buffers the visualization flags (or the matting path) ask for are all
\* allocated, as the last allocation for a frame of this size left them
AllocatedFor(size) ==
    IF networkType = MATTING
    THEN /\ imgMaskOutput # NULL /\ imgBlendOutput # NULL
         /\ maskoutputSize = size /\ blendoutputSize = size
    ELSE /\ visualizationFlags # {}
         /\ overlaySize = size
         /\ VISUALIZE_OVERLAY \in visualizationFlags => imgOverlay # NULL
         /\ VISUALIZE_MASK \in visualizationFlags => imgMask # NULL
         /\ visualizationFlags = {VISUALIZE_OVERLAY, VISUALIZE_MASK} => imgComposite # NULL

\* main is leaving the allocation of this frame's buffers (lines 325-342)
AllocationStep == pc = "alloc" /\ pc' # "alloc"

(* C11: a frame of the same width and height as the last successful allocation reuses the output buffers, none released and none reallocated, for every visualization flag combination and for the matting path; a frame of another size has them allocated at the new size. *)
C11_BuffersReused ==
    [][AllocationStep =>
          IF AllocatedFor(frameSize)
          THEN pc' = "process" /\ UNCHANGED <<mattingVars, segnetVars, heap>>
          ELSE pc' = "process" =>
                  IF networkType = MATTING THEN maskoutputSize' = frameSize
                  ELSE overlaySize' = frameSize]_vars

\* a second frame has had its buffers allocated
C11_Witness == frames = 2 /\ pc = "process" /\ heap # {}

(* C12: one frame is fully processed before the next begins: on every path through an iteration, the continue paths included, cudaDeviceSynchronize follows the frame's launches before the next iteration captures, releases, reallocates or launches. *)
C12_FrameFullyProcessed ==
    pc \in {"loop", "capture", "alloc", "process"} => barrier /\ gpu = <<>>

\* an iteration was left by a continue after one of its kernels was launched
C12_Witness == pc = "loop" /\ ~barrier /\ frames >= 1

\* the size allocBuffers gives the mask for a frame
MaskSizeFor(size) ==
    IF VISUALIZE_OVERLAY \in visualizationFlags
    THEN <<size[1] \div 2, size[2] \div 2>> ELSE size

(* C13: whenever allocBuffers returns true, every buffer the flags request is allocated with its recorded size (overlaySize = (w,h), maskSize = (w/2,h/2) with overlay and (w,h) without it, compositeSize = (overlaySize.x + maskSize.x, overlaySize.y)), and imgOutput and outputSize are the composite's when both are requested and the single requested buffer's otherwise. *)
C13_AllocBuffersPostcondition ==
    (networkType = SEGNET /\ pc = "process") =>
        /\ VISUALIZE_OVERLAY \in visualizationFlags =>
              imgOverlay \in heap /\ overlaySize = frameSize
        /\ VISUALIZE_MASK \in visualizationFlags =>
              imgMask \in heap /\ maskSize = MaskSizeFor(frameSize)
        /\ visualizationFlags = {VISUALIZE_OVERLAY, VISUALIZE_MASK} =>
              /\ imgComposite \in heap
              /\ compositeSize = <<overlaySize[1] + maskSize[1], overlaySize[2]>>
              /\ imgOutput = imgComposite /\ outputSize = compositeSize
        /\ visualizationFlags = {VISUALIZE_OVERLAY} =>
              imgOutput = imgOverlay /\ outputSize = overlaySize
        /\ visualizationFlags = {VISUALIZE_MASK} =>
              imgOutput = imgMask /\ outputSize = maskSize

\* allocBuffers has returned true for a second frame, with overlay and mask
C13_Witness ==
    /\ networkType = SEGNET /\ pc = "process" /\ frames = 2
    /\ visualizationFlags = {VISUALIZE_OVERLAY, VISUALIZE_MASK}

====
